---- MODULE Spec2Model ----
(***************************************************************************)
(* A model of cpp-imageprocessing: a driver that asks a text-generation    *)
(* endpoint for image URLs, probes each candidate, downloads the accepted  *)
(* ones and converts them to grayscale.                                    *)
(*                                                                         *)
(* The repository holds two programs:                                      *)
(*   "looping"    src/unnamed/part_000 (and its uncommented twin           *)
(*                src/unnamed/part_001): count from argv[1], harvester     *)
(*                with a while loop, void downloadImage that exit(1)s.     *)
(*   "singlepass" src/imageprocessing.cpp: count hardcoded to 2, one       *)
(*                generate/extract pass, bool downloadImage.               *)
(* Strings are sequences of one-character strings.                         *)
(***************************************************************************)
EXTENDS Integers, Sequences, FiniteSets, TLC

VARIABLES
    program,        \* which of the two programs runs
    keyFileOk,      \* environment: can googleai.key be opened
    argv,           \* the command-line arguments after argv[0]
    images,         \* images/<k>.jpg : what the file holds
    pc,             \* position of the single thread of control
    exitCode,       \* -1 while running, else the process's exit status
    numimages,      \* the int handed to generateImageUrls
    image_urls,     \* the accepted list (validUrls in the single-pass program)
    genText,        \* text extracted from the generation response
    urlsText,       \* text extracted from the extraction response
    iss,            \* what is left to read of the istringstream over urlsText
    candidate_urls, \* lines retained by the line filter in this cycle
    k,              \* index of the range-for over candidate_urls
    i,              \* index of the driver's for loop (0-based, as in the code)
    imageUrls,      \* the harvester's return value, in main
    cerr,           \* the messages written to std::cerr (as a set)
    cout,           \* the messages written to std::cout (as a set)
    gsWritten,      \* ordinals k whose gs-images/<k>.jpg was written in this run
    decoded,        \* ordinals k whose images/<k>.jpg imread decoded in this run
    calls,          \* kinds of the network requests of the current cycle, in order
    prompt,         \* the prompt of the latest postToGemini call
    response,       \* the body the latest postToGemini call returned
    cycles,         \* harvester cycles started
    posts,          \* postToGemini calls made
    accessible,     \* candidate lines for which isAccessible returned true
    oplog           \* the driver's calls of downloadImage and toGrayscale, in
                    \* order: [op, n (the ordinal of the file), url, ok]

vars == <<program, keyFileOk, argv, images, pc, exitCode, numimages,
          image_urls, genText, urlsText, iss, candidate_urls, k, i, imageUrls,
          cerr, cout, gsWritten, decoded, calls, prompt, response, cycles,
          posts, accessible, oplog>>

----------------------------------------------------------------------------
(* Bounds of the model *)

\* harvester cycles a run may start
MaxCycles == 2
\* pieces concatenated into an extraction text when the line filter is
\* explored on its own
MaxPieces == 4

----------------------------------------------------------------------------
(* Strings *)

NL == "\n"

\* all sequences over S of length 0..n
RECURSIVE SeqsUpTo(_, _)
SeqsUpTo(S, n) ==
    IF n = 0 THEN {<<>>}
    ELSE LET shorter == SeqsUpTo(S, n - 1)
         IN  shorter \cup {Append(s, c) : s \in {t \in shorter : Len(t) = n - 1}, c \in S}

RECURSIVE Concat(_)
Concat(ss) == IF ss = <<>> THEN <<>> ELSE Head(ss) \o Concat(Tail(ss))

Http == <<"h", "t", "t", "p">>

\* std::string::npos; positions are 0-based as in the code
npos == -1

\* std::string::find(needle): the first position at which needle occurs
RECURSIVE FindFrom(_, _, _)
FindFrom(s, needle, pos) ==
    IF pos + Len(needle) > Len(s) THEN npos
    ELSE IF SubSeq(s, pos + 1, pos + Len(needle)) = needle THEN pos
    ELSE FindFrom(s, needle, pos + 1)

Find(s, needle) == FindFrom(s, needle, 0)

\* std::getline(iss, line): reads up to the next '\n' (consumed, not stored) or
\* to the end of the stream; fails when nothing is left to read.
RECURSIVE LineEnd(_, _)
LineEnd(s, n) ==
    IF n > Len(s) THEN n
    ELSE IF s[n] = NL THEN n
    ELSE LineEnd(s, n + 1)

GetlineOk(s) == s # <<>>
GetlineLine(s) == SubSeq(s, 1, LineEnd(s, 1) - 1)
GetlineRest(s) == SubSeq(s, LineEnd(s, 1) + 1, Len(s))

----------------------------------------------------------------------------
(* atoi and the (size_t) cast *)

Digits == {"0", "1", "2", "3", "4", "5", "6", "7", "8", "9"}
DigitVal(c) ==
    CASE c = "0" -> 0 [] c = "1" -> 1 [] c = "2" -> 2 [] c = "3" -> 3
      [] c = "4" -> 4 [] c = "5" -> 5 [] c = "6" -> 6 [] c = "7" -> 7
      [] c = "8" -> 8 [] c = "9" -> 9

RECURSIVE SkipSpace(_)
SkipSpace(s) ==
    IF s # <<>> /\ Head(s) \in {" ", "\t", NL} THEN SkipSpace(Tail(s)) ELSE s

RECURSIVE AccDigits(_, _)
AccDigits(s, acc) ==
    IF s # <<>> /\ Head(s) \in Digits
    THEN AccDigits(Tail(s), 10 * acc + DigitVal(Head(s)))
    ELSE acc

\* atoi: optional white space, optional sign, then digits up to the first
\* character that is no digit; 0 when there is no digit.
atoi(s) ==
    LET t == SkipSpace(s)
    IN  IF t # <<>> /\ Head(t) = "-" THEN 0 - AccDigits(Tail(t), 0)
        ELSE IF t # <<>> /\ Head(t) = "+" THEN AccDigits(Tail(t), 0)
        ELSE AccDigits(t, 0)

\* A size_t is 64 bits wide, kept as four 16-bit limbs, most significant first.
Limb == 65536

\* (size_t)n for a 32-bit int n: sign extension to 64 bits
SizeTOfInt(n) ==
    LET ext == IF n < 0 THEN Limb - 1 ELSE 0
    IN  <<ext, ext, (n \div Limb) % Limb, n % Limb>>

\* unsigned comparison
RECURSIVE SizeTLess(_, _)
SizeTLess(a, b) ==
    IF a = <<>> THEN FALSE
    ELSE IF Head(a) # Head(b) THEN Head(a) < Head(b)
    ELSE SizeTLess(Tail(a), Tail(b))

\* image_urls.size() < (size_t)numimages
SizeBelow(v, n) == SizeTLess(SizeTOfInt(Len(v)), SizeTOfInt(n))
\* image_urls.size() == (size_t)numimages
SizeEquals(v, n) == SizeTOfInt(Len(v)) = SizeTOfInt(n)

----------------------------------------------------------------------------
(* JSON values as nlohmann::json holds them, and the response bodies *)

JNull == [t |-> "null"]
JNumber == [t |-> "number"]
JBoolean == [t |-> "boolean"]
JString(s) == [t |-> "string", s |-> s]
JArray(a) == [t |-> "array", a |-> a]
JObject(o) == [t |-> "object", o |-> o]

\* the result of a json operation that may throw a json::exception: what
\* names the class of the exception thrown
Thrown(what) == [ok |-> FALSE, what |-> what]
Value(v) == [ok |-> TRUE, v |-> v]

\* basic_json::contains(key): true only for an object holding the key
JContains(j, key) == j.t = "object" /\ key \in DOMAIN j.o

\* basic_json::empty(): null is empty, a container is empty when it has no
\* element, every other value is not
JEmpty(j) ==
    CASE j.t = "null" -> TRUE
      [] j.t = "array" -> Len(j.a) = 0
      [] j.t = "object" -> DOMAIN j.o = {}
      [] OTHER -> FALSE

\* non-const operator[](key): null becomes an object, a missing key is
\* inserted holding null, any other type throws type_error 305
JKey(j, key) ==
    CASE j.t = "null" -> Value(JNull)
      [] j.t = "object" -> Value(IF key \in DOMAIN j.o THEN j.o[key] ELSE JNull)
      [] OTHER -> Thrown("type_error")

\* non-const operator[](0): null becomes an array, an array is filled up
\* with null to the index, any other type throws type_error 305
JFirst(j) ==
    CASE j.t = "null" -> Value(JNull)
      [] j.t = "array" -> Value(IF Len(j.a) > 0 THEN j.a[1] ELSE JNull)
      [] OTHER -> Thrown("type_error")

\* conversion to std::string: type_error 302 unless the value is a string
JToString(j) == IF j.t = "string" THEN Value(j.s) ELSE Thrown("type_error")

\* A response body: what postToGemini returns. kind "json" parses to doc,
\* every other kind (the empty string, text that is no JSON) makes
\* json::parse throw parse_error.
EmptyBody == [kind |-> "empty"]
GarbageBody == [kind |-> "garbage"]
JsonBody(doc) == [kind |-> "json", doc |-> doc]

JsonParse(body) ==
    IF body.kind = "json" THEN Value(body.doc) ELSE Thrown("parse_error")

\* j["candidates"][0]["content"]["parts"][0]["text"] converted to a string
TextPath(j) ==
    LET c == JKey(j, "candidates")
        c0 == IF c.ok THEN JFirst(c.v) ELSE c
        ct == IF c0.ok THEN JKey(c0.v, "content") ELSE c0
        ps == IF ct.ok THEN JKey(ct.v, "parts") ELSE ct
        p0 == IF ps.ok THEN JFirst(ps.v) ELSE ps
        tx == IF p0.ok THEN JKey(p0.v, "text") ELSE p0
    IN  IF tx.ok THEN JToString(tx.v) ELSE tx

\* the exception classes json throws here; each derives from
\* json::exception, which derives from std::exception
StdExceptions == {"parse_error", "type_error"}

\* a handler for the parser's exception only
CatchesParseError(e) == e.what = "parse_error"

\* catch (std::exception& e)
Catches(e) == e.what \in StdExceptions

\* extractTextFromGemini: [text, threw, raised]; threw says the catch block
\* ran (and logged), in which case the text is empty; raised says an
\* exception left the function.
extractTextFromGemini(body) ==
    LET j == JsonParse(body)
        r == IF ~j.ok THEN j
             ELSE IF JContains(j.v, "candidates") /\ ~JEmpty(j.v.o["candidates"])
             THEN TextPath(j.v)
             ELSE Value(<<>>)
    IN  IF r.ok THEN [text |-> r.v, threw |-> FALSE, raised |-> FALSE]
        ELSE IF Catches(r) THEN [text |-> <<>>, threw |-> TRUE, raised |-> FALSE]
        ELSE [text |-> <<>>, threw |-> FALSE, raised |-> TRUE]

\* a well-formed response carrying text
TextBody(text) ==
    JsonBody(JObject([candidates |->
        JArray(<<JObject([content |->
            JObject([parts |-> JArray(<<JObject([text |-> JString(text)])>>)])])>>)]))

\* the candidate lines the endpoint's texts are built from
UrlA == Http \o <<"a">>
UrlB == Http \o <<"b">>
UrlC == Http \o <<"c">>

\* texts the endpoint answers with
Texts ==
    { <<>>,
      UrlA,
      <<"n", "o">>,
      UrlA \o <<NL>> \o <<"n", "o">> \o <<NL>> \o UrlB \o <<NL>> \o <<"x">> \o <<NL>> \o UrlC }

\* bodies the endpoint answers with
Bodies ==
    { EmptyBody, GarbageBody,
      JsonBody(JArray(<<>>)),
      JsonBody(JObject(<<>>)),
      JsonBody(JObject([candidates |-> JArray(<<>>)])),
      JsonBody(JObject([candidates |-> JNull])),
      JsonBody(JObject([candidates |-> JString(<<"x">>)])),
      JsonBody(JObject([candidates |-> JArray(<<JObject(<<>>)>>)])),
      JsonBody(JObject([candidates |-> JArray(<<JObject([content |->
          JObject([parts |-> JArray(<<JObject([text |-> JNumber])>>)])])>>)])) }
    \cup {TextBody(t) : t \in Texts}

\* postToGemini: what it returns and whether it logged. curl_easy_init may
\* fail (empty, nothing logged), the transfer may fail (empty, logged), or
\* the body the endpoint sent is returned.
PostOutcomes ==
    { [body |-> EmptyBody, logged |-> FALSE, sent |-> FALSE],
      [body |-> EmptyBody, logged |-> TRUE, sent |-> TRUE] }
    \cup {[body |-> b, logged |-> FALSE, sent |-> TRUE] : b \in Bodies}

----------------------------------------------------------------------------
(* The environment and the initial state *)

\* the strings given as argv[1]: counts, a count the endpoint's answers
\* cannot fill within the cycles explored, a negative count, and strings
\* that are no number, or only start or end as one
ArgStrings ==
    { <<"0">>, <<"1">>, <<"2">>, <<"1", "2">>, <<"-", "1">>, <<>>, <<"x">>,
      <<"2", "x">>, <<"x", "2">>, <<" ", "1">>, <<"+", "2">> }

\* the argument vectors (argv[0] left out): argc is 1, 2 or 3
ArgVectors ==
    {<<>>} \cup {<<a>> : a \in ArgStrings} \cup {<<<<"2">>, <<"1">>>>}

\* a prompt is [kind, n, text]: the generation prompt names the count, the
\* extraction prompt ends with the generated text
NoPrompt == [kind |-> "none", n |-> 0, text |-> <<>>]

\* no body yet
NoBody == [kind |-> "none"]

\* messages, as [msg, n]: n is the ordinal of the item, 0 when there is none
Msg(m, n) == [msg |-> m, n |-> n]

Init ==
    /\ program \in {"looping", "singlepass"}
    /\ keyFileOk \in BOOLEAN
    /\ argv \in IF program = "looping" THEN ArgVectors ELSE {<<>>, <<<<"1">>>>}
    /\ images = <<>>
    /\ pc = "main"
    /\ exitCode = -1
    /\ numimages = 0
    /\ image_urls = <<>>
    /\ genText = <<>>
    /\ urlsText = <<>>
    /\ iss = <<>>
    /\ candidate_urls = <<>>
    /\ k = 0
    /\ i = 0
    /\ imageUrls = <<>>
    /\ cerr = {}
    /\ cout = {}
    /\ gsWritten = {}
    /\ decoded = {}
    /\ calls = <<>>
    /\ prompt = NoPrompt
    /\ response = NoBody
    /\ cycles = 0
    /\ posts = 0
    /\ accessible = {}
    /\ oplog = <<>>

harvestVars == <<numimages, image_urls, genText, urlsText, iss, candidate_urls,
                 k, calls, prompt, response, cycles, posts, accessible>>
driverVars == <<i, imageUrls, images, gsWritten, decoded, oplog, cout>>
envVars == <<program, keyFileOk, argv>>

----------------------------------------------------------------------------
(* main, up to the call of the harvester *)

\* std::ifstream keyFile(APIKEY_FILE); if (!keyFile) return 1; then the key
\* is read and both directories are made (makeDir reports nothing and no
\* later step reads its outcome: a missing directory shows as a failing
\* fopen or imwrite, which are nondeterministic below).
\* a main that does not test the stream
KeyFileUnchecked == FALSE

\* if (!keyFile)
KeyFileMissing == ~keyFileOk

MainKeyFile ==
    /\ pc = "main"
    /\ IF KeyFileMissing
       THEN /\ cerr' = cerr \cup {Msg("API key file is missing", 0)}
            /\ exitCode' = 1
            /\ pc' = "exit"
       ELSE /\ pc' = "args"
            /\ UNCHANGED <<cerr, exitCode>>
    /\ UNCHANGED <<envVars, harvestVars, driverVars>>

\* looping: if (argc == 2) numimages = atoi(argv[1]) and the harvester is
\* called, else the usage message and return 1.
\* singlepass: main() takes no argument and calls generateImageUrls(apiKey, 2).
\* a main that only asks for some argument
HasSomeArgument == Len(argv) + 1 >= 2

\* if (argc == 2)
HasCountArgument == Len(argv) + 1 = 2

MainArgs ==
    /\ pc = "args"
    /\ IF program = "singlepass"
       THEN /\ numimages' = 2
            /\ cycles' = cycles + 1
            /\ pc' = "generate"
            /\ UNCHANGED <<cerr, exitCode>>
       ELSE IF HasCountArgument
       THEN /\ numimages' = atoi(argv[1])
            /\ pc' = "while"
            /\ UNCHANGED <<cerr, exitCode, cycles>>
       ELSE /\ cerr' = cerr \cup {Msg("the number of images to process is missing", 0)}
            /\ exitCode' = 1
            /\ pc' = "exit"
            /\ UNCHANGED <<numimages, cycles>>
    /\ UNCHANGED <<envVars, driverVars, image_urls, genText, urlsText, iss,
                   candidate_urls, k, calls, prompt, response, posts,
                   accessible>>

----------------------------------------------------------------------------
(* generateImageUrls *)

\* a loop test that compares as int
LoopGuardSigned == Len(image_urls) < numimages

\* a loop that gives up one element early
LoopGuardShort == SizeBelow(image_urls, numimages - 1)

\* while (image_urls.size() < (size_t)numimages): both sides are size_t
LoopGuard == SizeBelow(image_urls, numimages)

\* a harvester whose break fires one element late
StopAcceptingLate(v, n) == SizeEquals(v, n + 1)

\* if (image_urls.size() == (size_t)numimages) break;
StopAccepting(v, n) == SizeEquals(v, n)

HarvestWhile ==
    /\ pc = "while"
    /\ IF LoopGuard
       THEN /\ cycles < MaxCycles
            /\ cycles' = cycles + 1
            /\ pc' = "generate"
       ELSE /\ pc' = "return"
            /\ UNCHANGED cycles
    /\ UNCHANGED <<envVars, driverVars, cerr, exitCode, numimages, image_urls,
                   genText, urlsText, iss, candidate_urls, k, calls, prompt,
                   response, posts, accessible>>

\* what one postToGemini + extractTextFromGemini pair writes to std::cerr
PostLog(out, r) ==
    (IF out.logged THEN {Msg("Error in request", 0)} ELSE {})
    \cup (IF r.threw THEN {Msg("Error when parsing response", 0)} ELSE {})

GenerationPrompt(n) == [kind |-> "Generate", n |-> n, text |-> <<>>]
\* an extraction prompt that leaves the generated text out
ExtractionPromptBare(text) == [kind |-> "Extract", n |-> 0, text |-> <<>>]

ExtractionPrompt(text) == [kind |-> "Extract", n |-> 0, text |-> text]

\* Step 1: the generation prompt is posted and the text extracted. The
\* single-pass program returns its empty list when the text is empty. An
\* exception leaving extractTextFromGemini has no handler up to main, so
\* std::terminate ends the run.
HarvestGenerate ==
    /\ pc = "generate"
    /\ \E out \in PostOutcomes :
         LET r == extractTextFromGemini(out.body)
             giveUp == program = "singlepass" /\ r.text = <<>>
         IN  /\ genText' = r.text
             /\ response' = out.body
             /\ posts' = posts + 1
             /\ prompt' = GenerationPrompt(numimages)
             /\ calls' = Append(calls, prompt'.kind)
             /\ cerr' = cerr \cup PostLog(out, r)
                   \cup (IF giveUp THEN {Msg("Gemini generation returned empty text", 0)} ELSE {})
             /\ pc' = IF r.raised THEN "terminate"
                      ELSE IF giveUp THEN "return" ELSE "extract"
    /\ UNCHANGED <<envVars, driverVars, exitCode, numimages, image_urls, urlsText,
                   iss, candidate_urls, k, cycles, accessible>>

\* Step 2: the extraction prompt, which embeds genText, is posted and the
\* text extracted; the istringstream is set over it.
HarvestExtract ==
    /\ pc = "extract"
    /\ \E out \in PostOutcomes :
         LET r == extractTextFromGemini(out.body)
             giveUp == program = "singlepass" /\ r.text = <<>>
         IN  /\ urlsText' = r.text
             /\ iss' = r.text
             /\ candidate_urls' = <<>>
             /\ response' = out.body
             /\ posts' = posts + 1
             /\ prompt' = ExtractionPrompt(genText)
             /\ calls' = Append(calls, prompt'.kind)
             /\ cerr' = cerr \cup PostLog(out, r)
                   \cup (IF giveUp THEN {Msg("Gemini extraction returned empty text", 0)} ELSE {})
             /\ pc' = IF r.raised THEN "terminate"
                      ELSE IF giveUp THEN "return" ELSE "getline"
    /\ UNCHANGED <<envVars, driverVars, exitCode, numimages, image_urls, genText,
                   k, cycles, accessible>>

\* a filter that asks for the scheme at the start of the line
RetainedAtStart(line) == Find(line, Http) = 0

\* if (line.find("http") != std::string::npos)
Retained(line) == Find(line, Http) # npos

\* one turn of while (std::getline(iss, line)): the line is pushed when it
\* is retained; when getline fails the range-for over the candidates starts
HarvestGetline ==
    /\ pc = "getline"
    /\ IF GetlineOk(iss)
       THEN /\ candidate_urls' =
                 IF Retained(GetlineLine(iss))
                 THEN Append(candidate_urls, GetlineLine(iss))
                 ELSE candidate_urls
            /\ iss' = GetlineRest(iss)
            /\ UNCHANGED <<pc, k>>
       ELSE /\ pc' = "probe"
            /\ k' = 0
            /\ UNCHANGED <<candidate_urls, iss>>
    /\ UNCHANGED <<envVars, driverVars, cerr, exitCode, numimages, image_urls,
                   genText, urlsText, calls, prompt, response, cycles, posts,
                   accessible>>

\* where control goes when the range-for over the candidates is left
AfterCandidates == IF program = "looping" THEN "while" ELSE "return"

\* a harvester that puts an accepted URL in front of the earlier ones
AcceptAtFront(v, url, ok) == IF ok THEN <<url>> \o v ELSE v

\* a harvester that pushes every candidate it probed
AcceptUnchecked(v, url, ok) == Append(v, url)

\* the list after isAccessible(url) answered ok
Accept(v, url, ok) == IF ok THEN Append(v, url) ELSE v

\* one turn of for (url : candidate_urls): isAccessible(url) answers true
\* (CURLE_OK and status 200) or false; an accessible url is pushed and the
\* loop is left once the size equals the count. Leaving the loop ends the
\* body of the looping program's while, and with it the body's locals.
HarvestProbe ==
    /\ pc = "probe"
    /\ \E ok \in IF k < Len(candidate_urls) THEN BOOLEAN ELSE {FALSE} :
         LET more == k < Len(candidate_urls)
             url == candidate_urls[k + 1]
             next == IF more THEN Accept(image_urls, url, ok) ELSE image_urls
             leave == ~more \/ (ok /\ StopAccepting(next, numimages))
             endBody == leave /\ program = "looping"
         IN  /\ image_urls' = next
             /\ accessible' = IF more /\ ok THEN accessible \cup {url} ELSE accessible
             /\ pc' = IF leave THEN AfterCandidates ELSE pc
             /\ k' = IF endBody THEN 0 ELSE IF leave THEN k ELSE k + 1
             /\ calls' = IF endBody THEN <<>>
                         ELSE IF more THEN Append(calls, "Probe") ELSE calls
             /\ genText' = IF endBody THEN <<>> ELSE genText
             /\ urlsText' = IF endBody THEN <<>> ELSE urlsText
             /\ candidate_urls' = IF endBody THEN <<>> ELSE candidate_urls
             /\ prompt' = IF endBody THEN NoPrompt ELSE prompt
             /\ response' = IF endBody THEN NoBody ELSE response
    /\ UNCHANGED <<envVars, driverVars, cerr, exitCode, numimages, iss, cycles,
                   posts>>

\* return image_urls; the harvester's other locals end with the call, and
\* back in main the driver's loop starts at i = 0
HarvestReturn ==
    /\ pc = "return"
    /\ imageUrls' = image_urls
    /\ genText' = <<>>
    /\ urlsText' = <<>>
    /\ iss' = <<>>
    /\ candidate_urls' = <<>>
    /\ k' = 0
    /\ calls' = <<>>
    /\ prompt' = NoPrompt
    /\ response' = NoBody
    /\ i' = 0
    /\ pc' = "for"
    /\ UNCHANGED <<envVars, cerr, exitCode, numimages, image_urls, cycles, posts,
                   accessible, images, gsWritten, decoded, oplog, cout>>

----------------------------------------------------------------------------
(* main's loop over the accepted URLs: downloadImage and toGrayscale *)

\* what a file holds: "image" decodes, "junk" (bytes that are no image, or a
\* cut-off transfer) and "empty" do not
FileKinds == {"image", "junk", "empty"}

\* downloadImage up to its return: curl_easy_init may fail, fopen(.., "wb")
\* may fail, else the file is truncated and the transfer ends CURLE_OK or
\* not, leaving what was written until then.
DownloadOutcomes ==
    { [curl |-> FALSE, fp |-> FALSE, res |-> FALSE, file |-> "empty"],
      [curl |-> TRUE, fp |-> FALSE, res |-> FALSE, file |-> "empty"] }
    \cup {[curl |-> TRUE, fp |-> TRUE, res |-> r, file |-> f] :
            r \in BOOLEAN, f \in FileKinds}

\* the looping program's downloadImage is void and calls exit(1) when the
\* handle or the file cannot be had
DownloadExits(out) == program = "looping" /\ (~out.curl \/ ~out.fp)

\* the single-pass program's downloadImage returns false for those and
\* res == CURLE_OK otherwise; main converts only when it returned true.
\* The looping program's main converts whatever downloadImage left.
ConvertAfter(out) ==
    IF program = "looping" THEN out.curl /\ out.fp
    ELSE out.curl /\ out.fp /\ out.res

\* cv::imread(input).empty(): true unless the file holds a decodable image
ImreadEmpty(files, n) == ~(n \in DOMAIN files /\ files[n] = "image")

\* a toGrayscale without the early return
GrayWritesAlways(files, n) == TRUE

\* toGrayscale writes (imwrite is called) only when the image was read
GrayWrites(files, n) == ~ImreadEmpty(files, n)

\* file names numbered like the loop index
OrdinalFromZero(n) == n

\* std::to_string(i + 1): the ordinal in both file names of item i
Ordinal(n) == n + 1

DriverFor ==
    /\ pc = "for"
    /\ IF i < Len(imageUrls)
       THEN pc' = "download" /\ exitCode' = exitCode
       ELSE pc' = "exit" /\ exitCode' = 0
    /\ UNCHANGED <<envVars, harvestVars, driverVars, cerr>>

\* downloadImage(imageUrls[i], "images/<i+1>.jpg")
DriverDownload ==
    /\ pc = "download"
    /\ \E out \in DownloadOutcomes :
         LET n == Ordinal(i)
         IN  /\ oplog' = Append(oplog, [op |-> "download", n |-> n, url |-> imageUrls[i + 1],
                                        ok |-> out.curl /\ out.fp /\ out.res])
             /\ images' = IF out.fp THEN (n :> out.file) @@ images ELSE images
             /\ IF DownloadExits(out)
                THEN /\ exitCode' = 1
                     /\ pc' = "exit"
                     /\ UNCHANGED <<i, cerr, cout>>
                ELSE IF ConvertAfter(out)
                THEN /\ pc' = "gray"
                     /\ cout' = IF program = "singlepass"
                                THEN cout \cup {Msg("Downloaded", n)} ELSE cout
                     /\ UNCHANGED <<i, cerr, exitCode>>
                ELSE /\ pc' = "for"
                     /\ i' = i + 1
                     /\ cerr' = cerr \cup {Msg("Failed to download", n)}
                     /\ UNCHANGED <<cout, exitCode>>
    /\ UNCHANGED <<envVars, harvestVars, imageUrls, gsWritten, decoded>>

\* toGrayscale("images/<i+1>.jpg", "gs-images/<i+1>.jpg"): imread, and when
\* the image is empty the error is logged and nothing is written; else
\* cvtColor and imwrite, which may itself fail to write the file.
DriverGray ==
    /\ pc = "gray"
    /\ LET n == Ordinal(i)
       IN  /\ oplog' = Append(oplog, [op |-> "gray", n |-> n, url |-> imageUrls[i + 1],
                                      ok |-> ~ImreadEmpty(images, n)])
           /\ IF GrayWrites(images, n)
              THEN /\ \E written \in BOOLEAN :
                        gsWritten' = IF written THEN gsWritten \cup {n} ELSE gsWritten
                   /\ decoded' = IF ImreadEmpty(images, n) THEN decoded ELSE decoded \cup {n}
                   /\ cerr' = cerr
              ELSE /\ cerr' = cerr \cup {Msg("unable to read", n)}
                   /\ UNCHANGED <<gsWritten, decoded>>
           /\ cout' = IF program = "singlepass"
                      THEN cout \cup {Msg("Saved grayscale", n)} ELSE cout
    /\ i' = i + 1
    /\ pc' = "for"
    /\ UNCHANGED <<envVars, harvestVars, imageUrls, images, exitCode>>

----------------------------------------------------------------------------

Next ==
    \/ MainKeyFile
    \/ MainArgs
    \/ HarvestWhile
    \/ HarvestGenerate
    \/ HarvestExtract
    \/ HarvestGetline
    \/ HarvestProbe
    \/ HarvestReturn
    \/ DriverFor
    \/ DriverDownload
    \/ DriverGray

Spec == Init /\ [][Next]_vars

\* the program never blocks for ever in a call: a step that can be taken is taken
FairSpec == Spec /\ WF_vars(Next)

----------------------------------------------------------------------------
(* Properties *)

HarvestPcs == {"while", "generate", "extract", "getline", "probe", "return"}
DriverPcs == {"for", "download", "gray"}

\* the accepted total equals the requested count
AtCount == Len(image_urls) = numimages

\* C1: for a count N >= 0 the accepted list never holds more than N
\* elements, during harvesting and once returned, and each of its elements
\* is a candidate line for which isAccessible answered true.
C1_AtMostCountAndAccessible ==
    numimages >= 0 =>
        /\ Len(image_urls) <= numimages
        /\ Len(imageUrls) <= numimages
        /\ \A j \in 1..Len(image_urls) : image_urls[j] \in accessible
        /\ \A j \in 1..Len(imageUrls) : imageUrls[j] \in accessible

\* the harvester returned the first and third of three candidates, the
\* second having been probed and refused
C1_Witness ==
    /\ pc = "for"
    /\ numimages = 2
    /\ imageUrls = <<UrlA, UrlC>>
    /\ UrlB \notin accessible

\* C2: once the accepted total equals the count, the harvester accepts
\* nothing more, posts no further prompt and probes no further candidate;
\* a harvester that filled the count in its first cycle returns after one
\* generation call and one extraction call.
C2_NothingAfterCount ==
    /\ [][(pc \in HarvestPcs /\ AtCount) =>
            /\ image_urls' = image_urls
            /\ accessible' = accessible
            /\ posts' = posts
            /\ cycles' = cycles
            /\ calls' = calls \/ calls' = <<>>]_vars
    /\ [](pc = "return" /\ cycles = 1 => posts <= 2)

\* count 2, three candidates, the first two accepted: the third was not
\* probed and the list is returned after the two posts of the one cycle
C2_Witness ==
    /\ program = "singlepass"
    /\ pc = "return"
    /\ numimages = 2
    /\ image_urls = <<UrlA, UrlB>>
    /\ Len(candidate_urls) = 3
    /\ calls = <<"Generate", "Extract", "Probe", "Probe">>
    /\ posts = 2

\* C3 as stated: the harvester returns only when the accepted total has
\* reached the count.
C3_ReturnsOnlyAtCount ==
    pc = "return" => AtCount

\* C3, amended: the looping program's harvester returns only when the
\* accepted total has reached the count (so it runs for ever when that
\* never happens), and once the total has reached the count it returns.
C3_LoopingReturnsOnlyAtCount ==
    /\ [](program = "looping" /\ pc = "return" => AtCount)
    /\ [](program = "looping" /\ pc \in HarvestPcs /\ ~AtCount
            => exitCode = -1 /\ imageUrls = <<>>)
    /\ (program = "looping" /\ pc \in HarvestPcs /\ AtCount)
          ~> (pc = "for" /\ imageUrls = image_urls)

\* the looping harvester returned two URLs gathered over two cycles
C3_Witness ==
    /\ program = "looping"
    /\ pc = "for"
    /\ numimages = 2
    /\ cycles = 2
    /\ Len(imageUrls) = 2

\* C4: when the credential file cannot be opened the process exits with
\* code 1 and no prompt was posted, no URL probed and no download started,
\* whatever the arguments.
C4_NoKeyNoNetwork ==
    ~keyFileOk =>
        /\ pc \in {"main", "exit"}
        /\ pc = "exit" => exitCode = 1
        /\ posts = 0
        /\ calls = <<>>
        /\ accessible = {}
        /\ oplog = <<>>

\* the process ended without its key although a count was given
C4_Witness ==
    /\ ~keyFileOk
    /\ pc = "exit"
    /\ exitCode = 1
    /\ argv = <<<<"2">>>>

----------------------------------------------------------------------------
(* The line filter on its own: the harvester stands before its getline   *)
(* loop with an extraction text put together from pieces.                *)

SeeLine == <<"S", "e", "e", " ", "h", "t", "t", "p", "s", ":", "/", "/",
           "x", ".", "c", "o", "m", "/", "a", ".", "j", "p", "g">>
NoLinkLine == <<"n", "o", " ", "l", "i", "n", "k", " ", "h", "e", "r", "e">>
HttpFooLine == <<"h", "t", "t", "p", "f", "o", "o">>
ExampleText == SeeLine \o <<NL>> \o NoLinkLine \o <<NL>> \o HttpFooLine

Pieces == {Http, <<"h", "t">>, <<"t", "p">>, <<NL>>, <<"x">>}

FilterTexts ==
    {Concat(ps) : ps \in SeqsUpTo(Pieces, MaxPieces)} \cup {ExampleText}

FilterInit ==
    /\ program \in {"looping", "singlepass"}
    /\ keyFileOk = TRUE
    /\ argv = <<<<"2">>>>
    /\ images = <<>>
    /\ pc = "getline"
    /\ exitCode = -1
    /\ numimages = 2
    /\ image_urls = <<>>
    /\ genText = UrlA
    /\ urlsText \in IF program = "looping" THEN FilterTexts ELSE FilterTexts \ {<<>>}
    /\ iss = urlsText
    /\ candidate_urls = <<>>
    /\ k = 0
    /\ i = 0
    /\ imageUrls = <<>>
    /\ cerr = {}
    /\ cout = {}
    /\ gsWritten = {}
    /\ decoded = {}
    /\ calls = <<"Generate", "Extract">>
    /\ prompt = ExtractionPrompt(genText)
    /\ response = TextBody(urlsText)
    /\ cycles = 1
    /\ posts = 2
    /\ accessible = {}
    /\ oplog = <<>>

FilterNext == HarvestGetline

FilterSpec == FilterInit /\ [][FilterNext]_vars

\* C5 as stated: exit code 1 only when the credential file is missing or
\* the count argument is absent; every other run that ends, ends with 0.
C5_ExitOneOnlyForSetup ==
    exitCode = 1 => ~keyFileOk \/ (program = "looping" /\ Len(argv) + 1 # 2)

\* argv[1] is a number: an optional sign and then digits only, at least one
IsNumber(s) ==
    LET u == IF s # <<>> /\ Head(s) \in {"-", "+"} THEN Tail(s) ELSE s
    IN  u # <<>> /\ \A j \in 1..Len(u) : u[j] \in Digits

\* argv[1] does not start as a number (after white space and a sign)
NoLeadingNumber(s) ==
    LET t == SkipSpace(s)
        u == IF t # <<>> /\ Head(t) \in {"-", "+"} THEN Tail(t) ELSE t
    IN  u = <<>> \/ Head(u) \notin Digits

UsageMessage == Msg("the number of images to process is missing", 0)

\* C6 as stated: a missing or non-numeric count argument ends the looping
\* program with a non-zero code and the usage message.
C6_NonNumericRejected ==
    (program = "looping" /\ keyFileOk /\ pc = "exit"
        /\ (Len(argv) # 1 \/ ~IsNumber(argv[1])))
    => exitCode # 0 /\ UsageMessage \in cerr

\* C6, amended: with the credential file present, the looping program ends
\* with code 1 and the usage message, the harvester not called, exactly
\* when argc is not 2. A non-numeric argv[1] is not rejected: it is
\* converted (to 0 when it does not start as a number, to its leading number
\* otherwise) and the harvester is called with that count; with count 0 it
\* posts nothing, returns the empty list and the process ends with code 0.
C6_MissingArgumentOnly ==
    (program = "looping" /\ keyFileOk) =>
        /\ (Len(argv) # 1 /\ pc = "exit") =>
              /\ exitCode = 1
              /\ UsageMessage \in cerr
              /\ cycles = 0 /\ posts = 0 /\ oplog = <<>>
        /\ (Len(argv) = 1 /\ pc \notin {"main", "args"}) =>
              /\ UsageMessage \notin cerr
              /\ NoLeadingNumber(argv[1]) =>
                    /\ numimages = 0
                    /\ cycles = 0 /\ posts = 0 /\ imageUrls = <<>>
                    /\ pc = "exit" => exitCode = 0
              /\ argv[1] = <<"2", "x">> => numimages = 2

\* the argument "x" was given and the process ended with code 0
C6_Witness ==
    /\ program = "looping"
    /\ keyFileOk
    /\ argv = <<<<"x">>>>
    /\ pc = "exit"
    /\ exitCode = 0

DownloadsOf(log) == SelectSeq(log, LAMBDA e : e.op = "download")

\* C7: nothing is downloaded before the harvester has returned, and the
\* accepted URLs are handled in their order: the calls of downloadImage
\* carry the ordinals 1, 2, 3, ... in turn, call n gets the n-th accepted URL,
\* toGrayscale for ordinal n is called only right after the download of
\* ordinal n, and the download of ordinal n+1 only after the calls for n.
C7_InDiscoveryOrder ==
    /\ oplog # <<>> => pc \in DriverPcs \cup {"exit"} /\ imageUrls = image_urls
    /\ \A j \in 1..Len(oplog) :
         /\ oplog[j].n \in 1..Len(imageUrls)
         /\ oplog[j].url = imageUrls[oplog[j].n]
         /\ oplog[j].op = "gray" =>
              j > 1 /\ oplog[j - 1].op = "download" /\ oplog[j - 1].n = oplog[j].n
         /\ (oplog[j].op = "download" /\ j > 1) => oplog[j - 1].n = oplog[j].n - 1
         /\ (oplog[j].op = "download" /\ j = 1) => oplog[j].n = 1
    /\ \A n \in 1..Len(DownloadsOf(oplog)) : DownloadsOf(oplog)[n].n = n
    /\ DOMAIN images \subseteq {oplog[j].n : j \in 1..Len(oplog)}
    /\ gsWritten \subseteq {oplog[j].n : j \in {m \in 1..Len(oplog) : oplog[m].op = "gray"}}

\* two accepted URLs, each downloaded and then converted, in order
C7_Witness ==
    /\ pc = "exit"
    /\ exitCode = 0
    /\ imageUrls = <<UrlA, UrlB>>
    /\ Len(oplog) = 4
    /\ oplog[3].op = "download" /\ oplog[3].n = 2 /\ oplog[3].url = UrlB
    /\ gsWritten = {1, 2}

\* C8 as stated: an item whose download failed is logged and not
\* converted, and every later item is still downloaded.
C8_FailedItemSkipped ==
    \A j \in 1..Len(oplog) :
        (oplog[j].op = "download" /\ ~oplog[j].ok) =>
            /\ Msg("Failed to download", oplog[j].n) \in cerr
            /\ \A m \in 1..Len(oplog) :
                 oplog[m].op = "gray" => oplog[m].n # oplog[j].n
            /\ pc = "exit" =>
                 \A n \in (oplog[j].n + 1)..Len(imageUrls) :
                     \E m \in 1..Len(oplog) :
                         oplog[m].op = "download" /\ oplog[m].n = n

\* the lines of a text, told by where they start: at the first character
\* and after each newline
LineStarts(t) == {p \in 1..Len(t) : p = 1 \/ t[p - 1] = NL}

\* the line starting at p: the longest stretch from p on without a newline
LineAt(t, p) ==
    LET e == CHOOSE e \in (p - 1)..Len(t) :
                 /\ \A q \in p..e : t[q] # NL
                 /\ e = Len(t) \/ t[e + 1] = NL
    IN  SubSeq(t, p, e)

ContainsHttp(l) ==
    \E q \in 1..(Len(l) - 3) :
        l[q] = "h" /\ l[q + 1] = "t" /\ l[q + 2] = "t" /\ l[q + 3] = "p"

KeptStarts(t) == {p \in LineStarts(t) : ContainsHttp(LineAt(t, p))}

\* the j-th smallest element of a set of numbers
Nth(S, j) == CHOOSE p \in S : Cardinality({q \in S : q < p}) = j - 1

\* C9: when the getline loop has ended, the candidates are exactly the
\* lines of the extraction text that contain "http", in the order of the
\* text.
C9_FilterKeepsHttpLines ==
    pc = "probe" =>
        /\ Len(candidate_urls) = Cardinality(KeptStarts(urlsText))
        /\ \A j \in 1..Len(candidate_urls) :
             candidate_urls[j] = LineAt(urlsText, Nth(KeptStarts(urlsText), j))

\* the three example lines went through the filter
C9_Witness ==
    /\ pc = "probe"
    /\ urlsText = ExampleText
    /\ candidate_urls = <<SeeLine, HttpFooLine>>

\* C10: gs-images/<n>.jpg is written in a run only if images/<n>.jpg was
\* decoded in that run; when toGrayscale is called on a file that does not
\* decode, it logs the error and writes nothing.
C10_WritesOnlyDecoded ==
    /\ gsWritten \subseteq decoded
    /\ \A n \in decoded : n \in DOMAIN images /\ images[n] = "image"
    /\ \A j \in 1..Len(oplog) :
         (oplog[j].op = "gray"
             /\ (oplog[j].n \notin DOMAIN images \/ images[oplog[j].n] # "image")) =>
            /\ oplog[j].n \notin gsWritten
            /\ Msg("unable to read", oplog[j].n) \in cerr

\* a transfer ended CURLE_OK, left bytes that are no image, and toGrayscale
\* was called on them
C10_Witness ==
    /\ pc = "exit"
    /\ Len(oplog) = 2
    /\ oplog[1].op = "download" /\ oplog[1].ok
    /\ oplog[2].op = "gray"
    /\ images[1] = "junk"
    /\ gsWritten = {}
    /\ Msg("unable to read", 1) \in cerr

----------------------------------------------------------------------------
(* The harvester's cycles *)

PassPcs == {"generate", "extract", "getline", "probe"}

\* a step that ends a generate/extract/filter pass with the total short of
\* the count
PassEndsShort ==
    /\ pc \in PassPcs
    /\ pc' \notin PassPcs
    /\ Len(image_urls') < numimages

\* C11 as stated: a pass that ends with the accepted total below the count
\* is followed by another whole cycle.
C11_ShortPassRepeats == [][PassEndsShort => pc' = "while"]_vars

\* C11, amended: in the looping program a pass that ends short of the count
\* goes back to the loop test, which starts a whole new cycle (two fresh
\* posts) with the accepted list as it was; in both programs the accepted
\* list only grows by appending, one URL at a time, and a URL accepted
\* again is appended again.
C11_LoopingRepeatsAndKeeps ==
    /\ [][(program = "looping" /\ PassEndsShort) => pc' = "while"]_vars
    /\ [][(program = "looping" /\ pc = "while" /\ Len(image_urls) < numimages) =>
            /\ pc' = "generate"
            /\ cycles' = cycles + 1
            /\ image_urls' = image_urls
            /\ calls' = <<>>]_vars
    /\ [][/\ Len(image_urls') \in {Len(image_urls), Len(image_urls) + 1}
          /\ SubSeq(image_urls', 1, Len(image_urls)) = image_urls]_vars
    /\ [](program = "looping" /\ pc = "while" => posts = 2 * cycles)

\* the same URL was accepted in the first and in the second cycle
C11_Witness ==
    /\ program = "looping"
    /\ pc = "return"
    /\ cycles = 2
    /\ numimages = 2
    /\ image_urls = <<UrlA, UrlA>>

----------------------------------------------------------------------------
(* The two posts of a cycle *)

\* the calls of the current cycle are a generation post, an extraction post
\* and then probes only
CallsInOrder ==
    \A n \in 1..Len(calls) :
        calls[n] = IF n = 1 THEN "Generate" ELSE IF n = 2 THEN "Extract" ELSE "Probe"

\* C12 as stated: every cycle makes exactly two posts, whatever the
\* generation post yields.
C12_TwoPostsPerCycle == pc \in {"while", "return"} => posts = 2 * cycles

\* C12, amended: the calls of a cycle are the generation post, then the
\* extraction post, then probes; the extraction prompt carries the text
\* extracted from the generation response; the looping program makes both
\* posts in every cycle, also when the generated text is empty, while the
\* single-pass program makes the second post only when that text is not
\* empty.
C12_LoopingTwoPostsInOrder ==
    /\ [](CallsInOrder)
    /\ [](program = "looping" /\ pc \in {"while", "return"} => posts = 2 * cycles)
    /\ [](program = "singlepass" /\ pc = "return" =>
            posts = IF genText = <<>> THEN 1 ELSE 2)
    /\ [][pc = "generate" =>
            /\ posts' = posts + 1
            /\ prompt'.kind = "Generate"
            /\ prompt'.n = numimages
            /\ calls' = <<"Generate">>]_vars
    /\ [][(program = "looping" /\ pc = "generate") => pc' = "extract"]_vars
    /\ [][pc = "extract" =>
            /\ posts' = posts + 1
            /\ prompt'.kind = "Extract"
            /\ prompt'.text = genText
            /\ calls' = <<"Generate", "Extract">>]_vars
    /\ [](pc \in {"getline", "probe"} => prompt.kind = "Extract" /\ prompt.text = genText)

\* the looping program posted the extraction prompt over an empty generated
\* text
C12_Witness ==
    /\ program = "looping"
    /\ pc = "getline"
    /\ genText = <<>>
    /\ prompt.kind = "Extract"
    /\ calls = <<"Generate", "Extract">>

----------------------------------------------------------------------------
(* extractTextFromGemini over bodies of every shape *)

\* values that are no container holding something
Leaves ==
    {JNull, JNumber, JBoolean, JString(<<>>), JString(UrlA), JArray(<<>>),
     JObject(<<>>)}

\* what may stand at each place of candidates[0].content.parts[0].text: a
\* leaf, or the container expected there holding each value of the next
\* place; an object may also lack the expected key
TextValues == Leaves
PartValues ==
    Leaves \cup {JObject([text |-> t]) : t \in TextValues}
           \cup {JObject([role |-> JString(<<"m">>)])}
PartsValues ==
    Leaves \cup {JArray(<<q>>) : q \in PartValues}
           \cup {JArray(<<JObject([text |-> JString(UrlA)]),
                          JObject([text |-> JString(UrlB)])>>)}
ContentValues ==
    Leaves \cup {JObject([parts |-> q]) : q \in PartsValues}
           \cup {JObject([role |-> JString(<<"m">>)])}
CandidateValues ==
    Leaves \cup {JObject([content |-> c]) : c \in ContentValues}
           \cup {JObject([index |-> JNumber])}
CandidatesValues ==
    Leaves \cup {JArray(<<c>>) : c \in CandidateValues}
           \cup {JObject([content |-> JNull]), JArray(<<JNull, TextBody(UrlA).doc>>)}
Documents ==
    Leaves \cup {JObject([candidates |-> c]) : c \in CandidatesValues}
           \cup {JObject([error |-> JObject([code |-> JNumber])])}

\* the bodies extractTextFromGemini is called with
ExtractBodies == {EmptyBody, GarbageBody} \cup {JsonBody(d) : d \in Documents}

ExtractInit ==
    /\ program \in {"looping", "singlepass"}
    /\ keyFileOk = TRUE
    /\ argv = <<<<"2">>>>
    /\ images = <<>>
    /\ pc = "call"
    /\ exitCode = -1
    /\ numimages = 2
    /\ image_urls = <<>>
    /\ genText = <<>>
    /\ urlsText = <<>>
    /\ iss = <<>>
    /\ candidate_urls = <<>>
    /\ k = 0
    /\ i = 0
    /\ imageUrls = <<>>
    /\ cerr = {}
    /\ cout = {}
    /\ gsWritten = {}
    /\ decoded = {}
    /\ calls = <<"Generate">>
    /\ prompt = GenerationPrompt(numimages)
    /\ response \in ExtractBodies
    /\ cycles = 1
    /\ posts = 1
    /\ accessible = {}
    /\ oplog = <<>>

\* std::string genText = extractTextFromGemini(generationResponse);
ExtractCall ==
    /\ pc = "call"
    /\ LET r == extractTextFromGemini(response)
       IN  /\ genText' = r.text
           /\ cerr' = cerr \cup PostLog([logged |-> FALSE], r)
           /\ pc' = IF r.raised THEN "terminate" ELSE "called"
    /\ UNCHANGED <<envVars, driverVars, exitCode, numimages, image_urls,
                   urlsText, iss, candidate_urls, k, calls, prompt, response,
                   cycles, posts, accessible>>

ExtractNext == ExtractCall

ExtractSpec == ExtractInit /\ [][ExtractNext]_vars

\* j is an object that has the key
HasKey(j, key) == j.t = "object" /\ key \in DOMAIN j.o

\* j is an array that has a first element
HasFirst(j) == j.t = "array" /\ Len(j.a) > 0

\* the body parses, its candidates are a non-empty array, and the first
\* candidate has content.parts[0].text as a string
HasTextPath(body) ==
    /\ body.kind = "json"
    /\ HasKey(body.doc, "candidates")
    /\ HasFirst(body.doc.o["candidates"])
    /\ HasKey(body.doc.o["candidates"].a[1], "content")
    /\ HasKey(body.doc.o["candidates"].a[1].o["content"], "parts")
    /\ HasFirst(body.doc.o["candidates"].a[1].o["content"].o["parts"])
    /\ HasKey(body.doc.o["candidates"].a[1].o["content"].o["parts"].a[1], "text")
    /\ body.doc.o["candidates"].a[1].o["content"].o["parts"].a[1].o["text"].t = "string"

\* the string at that place
TextAtPath(body) ==
    body.doc.o["candidates"].a[1].o["content"].o["parts"].a[1].o["text"].s

\* C13: extractTextFromGemini lets no exception out; it returns the text at
\* candidates[0].content.parts[0].text when the body parses and has that
\* string there, and the empty string for every other body.
C13_ExtractNeverRaises ==
    /\ pc # "terminate"
    /\ pc = "called" =>
         genText = IF HasTextPath(response) THEN TextAtPath(response) ELSE <<>>

\* a body whose candidates are a string: not empty, so operator[](0) threw
\* a type_error, which was caught and logged, and the text is empty
C13_Witness ==
    /\ pc = "called"
    /\ response = JsonBody(JObject([candidates |-> JString(UrlA)]))
    /\ genText = <<>>
    /\ Msg("Error when parsing response", 0) \in cerr

----------------------------------------------------------------------------
(* A negative count *)

\* C14: with a negative count the looping harvester never returns: its
\* loop test always starts another cycle, its break never fires (the range
\* over the candidates is left only at its end), and main never gets a
\* list, so the run neither reaches the driver's loop nor exits.
C14_NegativeCountNeverReturns ==
    /\ [](program = "looping" /\ numimages < 0 =>
            /\ pc \in {"while", "generate", "extract", "getline", "probe"}
            /\ imageUrls = <<>>
            /\ exitCode = -1)
    /\ [][(program = "looping" /\ numimages < 0 /\ pc = "while") =>
            pc' = "generate"]_vars
    /\ [][(program = "looping" /\ numimages < 0 /\ pc = "probe" /\ pc' # "probe") =>
            /\ k = Len(candidate_urls)
            /\ pc' = "while"]_vars

\* the count is -1, three URLs have been accepted and a second cycle began
C14_Witness ==
    /\ program = "looping"
    /\ argv = <<<<"-", "1">>>>
    /\ numimages = -1
    /\ pc = "generate"
    /\ cycles = 2
    /\ Len(image_urls) = 3

====
